---- MODULE Spec2Model ----
(***************************************************************************)
(* A model of mainui.py: the settings dialog (SettingsDialog) with its     *)
(* key=value settings file, and the main window (TextRecognitionApp) with  *)
(* its image selection, placeholder recognition and text save.             *)
(*                                                                         *)
(* Strings are sequences of one-character strings, so that str.strip,      *)
(* str.split, the line iteration of a text file and the os.path functions  *)
(* are computed character by character, as Python computes them.  A        *)
(* paragraph of lorem_paragraphs is one token: none of the four holds a    *)
(* line break.  The file system is a set of directories and a map from     *)
(* files to contents, both keyed by the path's components.                 *)
(***************************************************************************)
EXTENDS Integers, Sequences, FiniteSets, TLC

VARIABLES
    phase,            \* "start" before TextRecognitionApp() is built, then "running"
    fs_dirs,          \* the directories that exist
    fs_files,         \* the files that exist, with their contents
    settings,         \* SettingsDialog.settings, the dict TextRecognitionApp.settings aliases
    input_dir_edit,   \* text of SettingsDialog.input_dir_edit
    output_dir_edit,  \* text of SettingsDialog.output_dir_edit
    dialog_open,      \* SettingsDialog.exec_() is running (the dialog is modal)
    dialog_result,    \* how the last exec_() ended: "none", "accepted", "rejected"
    selected_image,   \* TextRecognitionApp.selected_image (None is the empty string)
    file_path_label,  \* text of file_path_label
    run_button,       \* run_button.isEnabled()
    save_button,      \* save_button.isEnabled()
    result_text,      \* result_text.toPlainText()
    status,           \* the status bar's message
    msgbox,           \* the message boxes the last handler showed, in order
    offered_path      \* the default path the last handler gave the save dialog, if any

vars == <<phase, fs_dirs, fs_files, settings, input_dir_edit, output_dir_edit,
          dialog_open, dialog_result, selected_image, file_path_label, run_button,
          save_button, result_text, status, msgbox, offered_path>>

settingsVars == <<settings, input_dir_edit, output_dir_edit, dialog_open, dialog_result>>
windowVars == <<selected_image, file_path_label, run_button, save_button, result_text,
                offered_path>>

(***************************************************************************)
(* Strings                                                                 *)
(***************************************************************************)

None == <<>>

\* The characters str.strip() removes (those the model's strings can hold).
Whitespace == {" ", "\t", "\n", "\r"}

Contains(s, c) == \E i \in 1..Len(s) : s[i] = c

\* str.find: the first index of c in s, 0 when there is none.
IndexOf(s, c) ==
    IF Contains(s, c)
    THEN CHOOSE i \in 1..Len(s) : s[i] = c /\ \A j \in 1..(i - 1) : s[j] # c
    ELSE 0

\* str.rfind: the last index of c in s, 0 when there is none.
LastIndexOf(s, c) ==
    IF Contains(s, c)
    THEN CHOOSE i \in 1..Len(s) : s[i] = c /\ \A j \in (i + 1)..Len(s) : s[j] # c
    ELSE 0

RECURSIVE LStrip(_)
LStrip(s) == IF s # <<>> /\ Head(s) \in Whitespace THEN LStrip(Tail(s)) ELSE s

RECURSIVE RStrip(_)
RStrip(s) ==
    IF s # <<>> /\ s[Len(s)] \in Whitespace THEN RStrip(SubSeq(s, 1, Len(s) - 1)) ELSE s

\* str.strip()
Strip(s) == RStrip(LStrip(s))

\* for line in f: the lines of a text file, each with its line break.
RECURSIVE SplitLines(_)
SplitLines(s) ==
    IF s = <<>> THEN <<>>
    ELSE LET i == IndexOf(s, "\n")
         IN  IF i = 0 THEN <<s>>
             ELSE <<SubSeq(s, 1, i)>> \o SplitLines(SubSeq(s, i + 1, Len(s)))

\* sep.join(parts)
RECURSIVE Join(_, _)
Join(parts, sep) ==
    IF parts = <<>> THEN <<>>
    ELSE IF Len(parts) = 1 THEN parts[1]
    ELSE parts[1] \o sep \o Join(Tail(parts), sep)

(***************************************************************************)
(* The settings dict: Python keeps a dict's keys in insertion order, and   *)
(* save_settings writes them in that order.                                *)
(***************************************************************************)

DictHas(d, k) == \E i \in 1..Len(d) : d[i][1] = k

DictGet(d, k) == d[CHOOSE i \in 1..Len(d) : d[i][1] = k][2]

\* d[k] = v
DictSet(d, k, v) ==
    IF DictHas(d, k)
    THEN [i \in 1..Len(d) |-> IF d[i][1] = k THEN <<k, v>> ELSE d[i]]
    ELSE Append(d, <<k, v>>)

(***************************************************************************)
(* os.path (posixpath) and the file system                                 *)
(***************************************************************************)

RECURSIVE SplitOn(_, _)
SplitOn(s, c) ==
    LET i == IndexOf(s, c)
    IN  IF i = 0 THEN <<s>>
        ELSE <<SubSeq(s, 1, i - 1)>> \o SplitOn(SubSeq(s, i + 1, Len(s)), c)

\* The names a path walks through: "/a//b/" and "/a/b" name the same entry.
Components(p) == SelectSeq(SplitOn(p, "/"), LAMBDA x : x # <<>>)

IsAbs(p) == p # <<>> /\ p[1] = "/"

\* os.path.expanduser("~"), as components and as a string.
HomeDir == << <<"h">> >>
Home == <<"/", "h">>

\* The entry a path names; a relative path starts at the working directory.
Resolve(p) == IF IsAbs(p) THEN Components(p) ELSE HomeDir \o Components(p)

\* A directory and every directory above it, the root (<<>>) included.
Prefixes(c) == {SubSeq(c, 1, i) : i \in 0..Len(c)}

\* Variant of isdir that takes every non-empty path for a directory: with it
\* save_settings() validates nothing.
isdir_NonEmpty(dirs, p) == p # <<>>

\* os.path.isdir(p): "" names nothing.
isdir(dirs, p) == p # <<>> /\ Resolve(p) \in dirs

\* os.path.exists(p) for a file or a directory.
exists(dirs, files, p) == p # <<>> /\ (Resolve(p) \in dirs \/ Resolve(p) \in DOMAIN files)

\* The directories after a successful os.makedirs(p): p and all above it.
makedirs(dirs, p) == dirs \cup Prefixes(Resolve(p))

\* os.path.basename(p) == p[p.rfind("/") + 1:]
basename(p) == SubSeq(p, LastIndexOf(p, "/") + 1, Len(p))

RECURSIVE RStripSep(_)
RStripSep(s) ==
    IF s # <<>> /\ s[Len(s)] = "/" THEN RStripSep(SubSeq(s, 1, Len(s) - 1)) ELSE s

\* os.path.dirname(p): the head up to the last "/", its trailing slashes dropped
\* unless it is all slashes.
dirname(p) ==
    LET head == SubSeq(p, 1, LastIndexOf(p, "/"))
    IN  IF head # <<>> /\ RStripSep(head) # <<>> THEN RStripSep(head) ELSE head

\* Variant of splitext that cuts at the last dot of the file name wherever it
\* is, leading dots included.
splitext_LastDot(p) ==
    LET sepIndex == LastIndexOf(p, "/")
        dotIndex == LastIndexOf(p, ".")
    IN  IF dotIndex > sepIndex
        THEN <<SubSeq(p, 1, dotIndex - 1), SubSeq(p, dotIndex, Len(p))>>
        ELSE <<p, <<>>>>

\* os.path.splitext(p): the extension starts at the last dot of the last
\* component, unless only dots precede it there.
splitext(p) ==
    LET sepIndex == LastIndexOf(p, "/")
        dotIndex == LastIndexOf(p, ".")
    IN  IF dotIndex > sepIndex
           /\ \E i \in (sepIndex + 1)..(dotIndex - 1) : p[i] # "."
        THEN <<SubSeq(p, 1, dotIndex - 1), SubSeq(p, dotIndex, Len(p))>>
        ELSE <<p, <<>>>>

\* os.path.join(a, b)
join(a, b) ==
    IF IsAbs(b) THEN b
    ELSE IF a = <<>> \/ a[Len(a)] = "/" THEN a \o b
    ELSE a \o <<"/">> \o b

(***************************************************************************)
(* SettingsDialog                                                          *)
(***************************************************************************)

input_dir_key == <<"i", "n", "p", "u", "t", "_", "d", "i", "r">>
output_dir_key == <<"o", "u", "t", "p", "u", "t", "_", "d", "i", "r">>

\* os.path.expanduser('~/Pictures')
DefaultInputDir == Home \o <<"/", "P", "i", "c", "t", "u", "r", "e", "s">>

\* os.path.expanduser('~/Documents/TextRecognition')
DefaultOutputDir ==
    Home \o <<"/", "D", "o", "c", "u", "m", "e", "n", "t", "s", "/", "T", "e", "x", "t",
              "R", "e", "c", "o", "g", "n", "i", "t", "i", "o", "n">>

\* self.settings as __init__ sets it before load_settings()
DefaultSettings == << <<input_dir_key, DefaultInputDir>>, <<output_dir_key, DefaultOutputDir>> >>

\* os.path.expanduser("~/.config/text_recognition")
config_dir ==
    Home \o <<"/", ".", "c", "o", "n", "f", "i", "g", "/", "t", "e", "x", "t", "_", "r",
              "e", "c", "o", "g", "n", "i", "t", "i", "o", "n">>

config_file ==
    join(config_dir, <<"s", "e", "t", "t", "i", "n", "g", "s", ".", "c", "o", "n", "f">>)

\* Variant of LoadLine that keeps a line without "=" as a key with an empty
\* value instead of skipping it.
LoadLine_KeyOnly(d, line) ==
    LET t == Strip(line)
        i == IndexOf(t, "=")
    IN  IF Contains(line, "=")
        THEN DictSet(d, SubSeq(t, 1, i - 1), SubSeq(t, i + 1, Len(t)))
        ELSE DictSet(d, t, <<>>)

\* One pass of load_settings' loop body: a line with "=" sets the key before the
\* first "=" of the stripped line to the rest of it; any other line is skipped.
LoadLine(d, line) ==
    IF Contains(line, "=")
    THEN LET t == Strip(line)
             i == IndexOf(t, "=")
         IN  DictSet(d, SubSeq(t, 1, i - 1), SubSeq(t, i + 1, Len(t)))
    ELSE d

RECURSIVE LoadLines(_, _)
LoadLines(d, lines) ==
    IF lines = <<>> THEN d ELSE LoadLines(LoadLine(d, Head(lines)), Tail(lines))

\* load_settings(): d is self.settings before the call.  readOk says whether
\* opening and decoding the file succeeds; a settings file is far shorter than
\* the reader's buffer, so a failure comes before the first line is handed out,
\* and the except clause then leaves d as it was.
load_settings(d, dirs, files, readOk) ==
    IF exists(dirs, files, config_file)
       /\ Resolve(config_file) \in DOMAIN files
       /\ readOk
    THEN LoadLines(d, SplitLines(files[Resolve(config_file)]))
    ELSE d

\* What save_settings' loop writes: key=value and a line break for every item.
RECURSIVE SettingsText(_)
SettingsText(d) ==
    IF d = <<>> THEN <<>>
    ELSE d[1][1] \o <<"=">> \o d[1][2] \o <<"\n">> \o SettingsText(Tail(d))

\* The outcomes of creating the directory of a file and writing the file.
IoOutcomes == {"ok", "makedirs_fails", "open_fails", "write_fails"}

\* os.makedirs(p) can only succeed on a path that is not empty and runs through
\* no file.
CanMakeDirs(files, p) == p # <<>> /\ Prefixes(Resolve(p)) \cap DOMAIN files = {}

\* The directories after os.makedirs(dirname, exist_ok=True) under outcome io.
DirsAfterWrite(dirs, dir, io) == IF io = "makedirs_fails" THEN dirs ELSE makedirs(dirs, dir)

\* The files after `with open(path, "w") as f: f.write(content)` under outcome
\* io: opening truncates the file, and a failed write leaves it cut short.
FilesAfterWrite(files, path, content, io) ==
    CASE io = "ok" -> (Resolve(path) :> content) @@ files
      [] io = "write_fails" -> (Resolve(path) :> <<>>) @@ files
      [] OTHER -> files

\* An outcome the file system can produce for writing path.
IoPossible(dirs, files, path, io) ==
    io \in {"ok", "open_fails", "write_fails"} =>
        /\ CanMakeDirs(files, dirname(path))
        /\ io \in {"ok", "write_fails"} => Resolve(path) \notin dirs

\* TextRecognitionApp() and its SettingsDialog(self) are built: the defaults,
\* load_settings(), the line edits, then init_ui().
Launch(readOk) ==
    /\ phase = "start"
    /\ phase' = "running"
    /\ settings' = load_settings(DefaultSettings, fs_dirs, fs_files, readOk)
    /\ input_dir_edit' = DictGet(settings', input_dir_key)
    /\ output_dir_edit' = DictGet(settings', output_dir_key)
    /\ dialog_open' = FALSE
    /\ dialog_result' = "none"
    /\ selected_image' = None
    /\ file_path_label' = <<"No file selected">>
    /\ run_button' = FALSE
    /\ save_button' = FALSE
    /\ result_text' = <<>>
    /\ status' = <<"Ready">>
    /\ msgbox' = <<>>
    /\ offered_path' = <<>>
    /\ UNCHANGED <<fs_dirs, fs_files>>

\* open_settings() up to the modal exec_(); the rest runs when the dialog closes.
open_settings ==
    /\ phase = "running"
    /\ ~dialog_open
    /\ dialog_open' = TRUE
    /\ dialog_result' = "none"
    /\ msgbox' = <<>>
    /\ offered_path' = <<>>
    /\ UNCHANGED <<phase, fs_dirs, fs_files, settings, input_dir_edit, output_dir_edit,
                   selected_image, file_path_label, run_button, save_button, result_text,
                   status>>

\* The user types text into the input (which = "input") or the output line edit.
edit_text(which, text) ==
    /\ phase = "running"
    /\ dialog_open
    /\ IF which = "input"
       THEN input_dir_edit' = text /\ UNCHANGED output_dir_edit
       ELSE output_dir_edit' = text /\ UNCHANGED input_dir_edit
    /\ msgbox' = <<>>
    /\ offered_path' = <<>>
    /\ UNCHANGED <<phase, fs_dirs, fs_files, settings, dialog_open, dialog_result,
                   selected_image, file_path_label, run_button, save_button, result_text,
                   status>>

\* browse_input_dir(): dir_path is what getExistingDirectory returned, "" when
\* the user cancelled.
browse_input_dir(dir_path) ==
    /\ phase = "running"
    /\ dialog_open
    /\ dir_path = <<>> \/ isdir(fs_dirs, dir_path)
    /\ input_dir_edit' = IF dir_path # <<>> THEN dir_path ELSE input_dir_edit
    /\ msgbox' = <<>>
    /\ offered_path' = <<>>
    /\ UNCHANGED <<phase, fs_dirs, fs_files, settings, output_dir_edit, dialog_open,
                   dialog_result, selected_image, file_path_label, run_button,
                   save_button, result_text, status>>

\* browse_output_dir()
browse_output_dir(dir_path) ==
    /\ phase = "running"
    /\ dialog_open
    /\ dir_path = <<>> \/ isdir(fs_dirs, dir_path)
    /\ output_dir_edit' = IF dir_path # <<>> THEN dir_path ELSE output_dir_edit
    /\ msgbox' = <<>>
    /\ offered_path' = <<>>
    /\ UNCHANGED <<phase, fs_dirs, fs_files, settings, input_dir_edit, dialog_open,
                   dialog_result, selected_image, file_path_label, run_button,
                   save_button, result_text, status>>

\* Cancel: reject() ends exec_() with 0, and open_settings() does nothing more.
reject ==
    /\ phase = "running"
    /\ dialog_open
    /\ dialog_open' = FALSE
    /\ dialog_result' = "rejected"
    /\ msgbox' = <<>>
    /\ offered_path' = <<>>
    /\ UNCHANGED <<phase, fs_dirs, fs_files, settings, input_dir_edit, output_dir_edit,
                   selected_image, file_path_label, run_button, save_button, result_text,
                   status>>

\* Variant of StoreSettings that stores the input directory only.
StoreSettings_InputOnly(d, input_dir, output_dir) == DictSet(d, input_dir_key, input_dir)

\* The settings after save_settings() stores the two directories.
StoreSettings(d, input_dir, output_dir) ==
    DictSet(DictSet(d, input_dir_key, input_dir), output_dir_key, output_dir)

\* Variant of EnsureOutputDir that never creates a directory.
EnsureOutputDir_Skip(dirs, output_dir) == dirs

\* The directories after save_settings() has seen to the output directory: a
\* missing one is created, with those above it.
EnsureOutputDir(dirs, output_dir) ==
    IF isdir(dirs, output_dir) THEN dirs ELSE makedirs(dirs, output_dir)

\* save_settings(): mkOut says whether os.makedirs(output_dir) succeeds, io how
\* writing the settings file ends.  On accept() exec_() returns 1 and
\* open_settings() goes on: it takes get_settings() and shows "Settings updated".
save_settings(mkOut, io) ==
    LET input_dir == input_dir_edit
        output_dir == output_dir_edit
        made == mkOut /\ CanMakeDirs(fs_files, output_dir)
        dirs1 == EnsureOutputDir(fs_dirs, output_dir)
        created == IF isdir(fs_dirs, output_dir)
                   THEN <<>> ELSE <<"Created output directory">>
        stored == StoreSettings(settings, input_dir, output_dir)
    IN
    /\ phase = "running"
    /\ dialog_open
    /\ offered_path' = <<>>
    /\ IF ~isdir(fs_dirs, input_dir)
       THEN /\ msgbox' = <<"Input directory does not exist!">>
            /\ UNCHANGED <<fs_dirs, fs_files, settings, dialog_open, dialog_result, status>>
       ELSE IF ~isdir(fs_dirs, output_dir) /\ ~made
       THEN /\ msgbox' = <<"Could not create output directory">>
            /\ UNCHANGED <<fs_dirs, fs_files, settings, dialog_open, dialog_result, status>>
       ELSE /\ IoPossible(dirs1, fs_files, config_file, io)
            /\ settings' = stored
            /\ fs_dirs' = DirsAfterWrite(dirs1, config_dir, io)
            /\ fs_files' = FilesAfterWrite(fs_files, config_file, SettingsText(stored), io)
            /\ msgbox' = created \o (IF io = "ok" THEN <<>> ELSE <<"Could not save settings">>)
            /\ dialog_open' = FALSE
            /\ dialog_result' = "accepted"
            /\ status' = <<"Settings updated">>
    /\ UNCHANGED <<phase, input_dir_edit, output_dir_edit, selected_image, file_path_label,
                   run_button, save_button, result_text>>

(***************************************************************************)
(* TextRecognitionApp                                                      *)
(***************************************************************************)

\* Variant of browse_image that enables the run button also when the file
\* dialog is cancelled.
browse_image_EnablesOnCancel(file_path) ==
    /\ phase = "running"
    /\ file_path = <<>> \/ Resolve(file_path) \in DOMAIN fs_files
    /\ IF file_path # <<>>
       THEN /\ selected_image' = file_path
            /\ file_path_label' = file_path
            /\ status' = <<"Selected: ">> \o basename(file_path)
       ELSE UNCHANGED <<selected_image, file_path_label, status>>
    /\ run_button' = TRUE
    /\ msgbox' = <<>>
    /\ offered_path' = <<>>
    /\ UNCHANGED <<phase, fs_dirs, fs_files, settings, input_dir_edit, output_dir_edit,
                   dialog_open, dialog_result, save_button, result_text>>

\* browse_image(): file_path is what getOpenFileName returned, "" when the user
\* cancelled, else an existing file.
browse_image(file_path) ==
    /\ phase = "running"
    /\ file_path = <<>> \/ Resolve(file_path) \in DOMAIN fs_files
    /\ IF file_path # <<>>
       THEN /\ selected_image' = file_path
            /\ file_path_label' = file_path
            /\ run_button' = TRUE
            /\ status' = <<"Selected: ">> \o basename(file_path)
       ELSE UNCHANGED <<selected_image, file_path_label, run_button, status>>
    /\ msgbox' = <<>>
    /\ offered_path' = <<>>
    /\ UNCHANGED <<phase, fs_dirs, fs_files, settings, input_dir_edit, output_dir_edit,
                   dialog_open, dialog_result, save_button, result_text>>

\* The four paragraphs, each one token.
lorem_paragraphs ==
    << "Lorem ipsum dolor sit amet, ...", "Ut in nulla enim. ...",
       "Sed ut perspiciatis unde omnis ...", "Nemo enim ipsam voluptatem ..." >>

\* random.randint(1, 4)
MinParagraphs == 1
MaxParagraphs == 4

\* Variant of Samples that draws with replacement.
Samples_WithReplacement(k) ==
    {[i \in 1..k |-> <<lorem_paragraphs[f[i]]>>] : f \in [1..k -> 1..Len(lorem_paragraphs)]}

\* random.sample(lorem_paragraphs, k): k of the paragraphs, no index twice, in
\* any order.
Samples(k) ==
    LET picks == {f \in [1..k -> 1..Len(lorem_paragraphs)] :
                     \A i, j \in 1..k : i # j => f[i] # f[j]}
    IN  {[i \in 1..k |-> <<lorem_paragraphs[f[i]]>>] : f \in picks}

\* "\n\n".join(selected_paragraphs)
RecognizedText(selected_paragraphs) == Join(selected_paragraphs, <<"\n", "\n">>)

\* run_recognition(): selected_paragraphs is what random.sample returned.
run_recognition(selected_paragraphs) ==
    /\ phase = "running"
    /\ offered_path' = <<>>
    /\ IF selected_image = None
       THEN /\ msgbox' = <<"Please select an image first.">>
            /\ UNCHANGED <<result_text, save_button, status>>
       ELSE /\ result_text' = RecognizedText(selected_paragraphs)
            /\ save_button' = TRUE
            /\ status' = <<"Recognition complete">>
            /\ msgbox' = <<>>
    /\ UNCHANGED <<phase, fs_dirs, fs_files, settings, input_dir_edit, output_dir_edit,
                   dialog_open, dialog_result, selected_image, file_path_label, run_button>>

\* The default path save_text() builds from the image name and the output
\* directory.
default_path(image, d) ==
    IF image # None
    THEN LET base_name == splitext(basename(image))[1]
         IN  join(DictGet(d, output_dir_key), base_name \o <<".", "t", "x", "t">>)
    ELSE join(DictGet(d, output_dir_key),
              <<"r", "e", "c", "o", "g", "n", "i", "z", "e", "d", "_", "t", "e", "x", "t", ".", "t", "x", "t">>)

\* Other places the user may pick in the save dialog.
SaveCatalogue == << <<"/", "s", "/", "t", "/", "o", ".", "t", "x", "t">> >>

\* getSaveFileName(): pick 0 is Cancel (""), 1 accepts the path offered, made
\* absolute as the dialog does, and a larger one picks SaveCatalogue[pick - 1].
SaveDialog(offered, pick) ==
    CASE pick = 0 -> <<>>
      [] pick = 1 -> IF IsAbs(offered) THEN offered ELSE join(Home, offered)
      [] OTHER -> SaveCatalogue[pick - 1]

\* f.write(text) in text mode: each "\n" is written as os.linesep, which is
\* "\n" where ~/.config is the settings' home.
linesep == <<"\n">>

\* Variant of WriteText that ends the file with a line break the buffer does
\* not have.
WriteText_TrailingNewline(text) == text \o <<"\n">>

RECURSIVE WriteText(_)
WriteText(text) ==
    IF text = <<>> THEN <<>>
    ELSE (IF Head(text) = "\n" THEN linesep ELSE <<Head(text)>>) \o WriteText(Tail(text))

\* save_text(): pick is the user's answer to the save dialog, io how creating
\* the directory and writing the file ends.
save_text(pick, io) ==
    LET text == result_text
        offered == default_path(selected_image, settings)
        file_path == SaveDialog(offered, pick)
    IN
    /\ phase = "running"
    /\ IF text = <<>>
       THEN /\ msgbox' = <<"No text to save.">>
            /\ offered_path' = <<>>
            /\ UNCHANGED <<fs_dirs, fs_files, status>>
       ELSE /\ offered_path' = <<offered>>
            /\ IF file_path # <<>>
               THEN /\ IoPossible(fs_dirs, fs_files, file_path, io)
                    /\ fs_dirs' = DirsAfterWrite(fs_dirs, dirname(file_path), io)
                    /\ fs_files' = FilesAfterWrite(fs_files, file_path, WriteText(text), io)
                    /\ IF io = "ok"
                       THEN /\ status' = <<"Saved to ">> \o file_path
                            /\ msgbox' = <<>>
                       ELSE /\ msgbox' = <<"Could not save file">>
                            /\ UNCHANGED status
               ELSE /\ msgbox' = <<>>
                    /\ UNCHANGED <<fs_dirs, fs_files, status>>
    /\ UNCHANGED <<phase, settings, input_dir_edit, output_dir_edit, dialog_open,
                   dialog_result, selected_image, file_path_label, run_button,
                   save_button, result_text>>

(***************************************************************************)
(* Bounds                                                                  *)
(***************************************************************************)

NumTypedDirs == 2       \* texts of DirCatalogue the user types
NumImages == 2          \* files of ImageCatalogue the user picks
NumConfLines == 2       \* lines of LineCatalogue a one-line settings file is drawn from
MaxConfLines == 2       \* lines of the settings files load_settings() is run on
MaxSavedParagraphs == 1 \* paragraphs drawn where the text can also be saved

(***************************************************************************)
(* The environment: what is on disk when the program starts, and what the  *)
(* user can type and pick.                                                 *)
(***************************************************************************)

Min(a, b) == IF a < b THEN a ELSE b

\* Texts the user may type into a directory line edit.
DirCatalogue ==
    << <<"/", "d">>, <<"/", "n", "/", "e", " ">>, <<>>,
       <<"/", "n", "/", "e">>, <<"/", "d", "/">>, <<" ", "/", "d">> >>

TypedDirs(n) == {DirCatalogue[i] : i \in 1..Min(n, Len(DirCatalogue))}

\* Files the user may pick as the image.
ImageCatalogue ==
    << DefaultInputDir \o <<"/", "c", "a", "t", ".", "j", "p", "g">>, <<"/", "d", "/", ".", "p", "n", "g">>,
       <<"/", "d", "/", "a", ".", "b", ".", "c">>, <<"/", "d", "/", "n">>, <<"/", "d", "/", "x", ".">> >>

Images(n) == {ImageCatalogue[i] : i \in 1..Min(n, Len(ImageCatalogue))}

\* Lines a settings file found at the start may hold.
LineCatalogue ==
    << input_dir_key \o <<"=", "/", "d">>,
       <<"t", "h", "e", "m", "e", "=", "a", "=", "b">>,
       <<"g", "a", "r", "b", "a", "g", "e">>,
       output_dir_key \o <<"=", "/", "n", "/", "e", " ">>,
       output_dir_key \o <<"=">>,
       <<" ", "i", "n", "p", "u", "t", "_", "d", "i", "r", " ", "=", " ", "/", "d">> >>

ConfLines(n) == {LineCatalogue[i] : i \in 1..Min(n, Len(LineCatalogue))}

\* The settings files of at most maxLines lines, each line ended by "\n".
RECURSIVE ConfTexts(_, _)
ConfTexts(lines, maxLines) ==
    IF maxLines = 0 THEN {<<>>}
    ELSE LET shorter == ConfTexts(lines, maxLines - 1)
         IN  shorter \cup {l \o <<"\n">> \o t : l \in lines, t \in shorter}

\* The directories on disk at the start: the home directory, ~/Pictures and /d.
InitialDirs == makedirs(makedirs({<<>>}, DefaultInputDir), <<"/", "d">>)

\* The image files on disk (their content plays no part).
ImageFiles == [c \in {Resolve(i) : i \in Images(NumImages)} |-> <<"<image>">>]

\* The start: nothing is built yet; the settings file holds one of confs, or
\* is missing when withMissing.
InitEnv(confs, withMissing) ==
    /\ phase = "start"
    /\ \/ /\ withMissing
          /\ fs_dirs = InitialDirs
          /\ fs_files = ImageFiles
       \/ \E conf \in confs :
             /\ fs_dirs = makedirs(InitialDirs, config_dir)
             /\ fs_files = (Resolve(config_file) :> conf) @@ ImageFiles
    /\ settings = <<>>
    /\ input_dir_edit = <<>>
    /\ output_dir_edit = <<>>
    /\ dialog_open = FALSE
    /\ dialog_result = "none"
    /\ selected_image = None
    /\ file_path_label = <<>>
    /\ run_button = FALSE
    /\ save_button = FALSE
    /\ result_text = <<>>
    /\ status = <<>>
    /\ msgbox = <<>>
    /\ offered_path = <<>>

(***************************************************************************)
(* The user's actions                                                      *)
(***************************************************************************)

\* Directories getExistingDirectory can return ("" is Cancel).
BrowsableDirs == {<<>>, DirCatalogue[1]}

\* The user clicks "Browse Images"; the button is always enabled, the modal
\* settings dialog blocks the window.
ClickBrowseImage(images) ==
    /\ ~dialog_open
    /\ \E file_path \in {<<>>} \cup images : browse_image(file_path)

\* Variant of ClickRun for a run button that is always enabled.
ClickRun_Ungated(maxK) ==
    /\ ~dialog_open
    /\ \E k \in MinParagraphs..Min(maxK, MaxParagraphs) :
          \E selected_paragraphs \in Samples(k) : run_recognition(selected_paragraphs)

\* The user clicks "Run Recognition", which needs the button enabled.
ClickRun(maxK) ==
    /\ ~dialog_open
    /\ run_button
    /\ \E k \in MinParagraphs..Min(maxK, MaxParagraphs) :
          \E selected_paragraphs \in Samples(k) : run_recognition(selected_paragraphs)

\* The user clicks "Save Text", which needs the button enabled.
ClickSave(picks, ios) ==
    /\ ~dialog_open
    /\ save_button
    /\ \E pick \in picks, io \in ios : save_text(pick, io)

\* What the user does in the settings dialog.
DialogStep(typed, ios) ==
    \/ \E which \in {"input", "output"}, text \in typed : edit_text(which, text)
    \/ \E dir_path \in BrowsableDirs : browse_input_dir(dir_path)
    \/ \E dir_path \in BrowsableDirs : browse_output_dir(dir_path)
    \/ \E mkOut \in BOOLEAN, io \in ios : save_settings(mkOut, io)
    \/ reject

\* A settings file as save_settings() writes it, with /d for both directories.
SavedConf == SettingsText(StoreSettings(<<>>, DirCatalogue[1], DirCatalogue[1]))

(***************************************************************************)
(* Spec: the whole application driven through its buttons.  A settings     *)
(* file is on disk; the user leaves the save dialog with Cancel (SpecCalls *)
(* is where files get written).                                            *)
(***************************************************************************)

Init == InitEnv({SavedConf}, FALSE)

Next ==
    \/ \E readOk \in BOOLEAN : Launch(readOk)
    \/ open_settings
    \/ DialogStep(TypedDirs(NumTypedDirs), {"ok", "write_fails"})
    \/ ClickBrowseImage(Images(NumImages))
    \/ ClickRun(MaxSavedParagraphs)
    \/ ClickSave({0}, {"ok"})

Spec == Init /\ [][Next]_vars

(***************************************************************************)
(* SpecSettings: the settings dialog alone, with every outcome of writing  *)
(* the settings file and more settings files to start from.                *)
(***************************************************************************)

InitSettings == InitEnv(ConfTexts(ConfLines(NumConfLines), 1), TRUE)

NextSettings ==
    \/ \E readOk \in BOOLEAN : Launch(readOk)
    \/ open_settings
    \/ DialogStep(TypedDirs(NumTypedDirs), IoOutcomes)

SpecSettings == InitSettings /\ [][NextSettings]_vars

(***************************************************************************)
(* SpecLoad: load_settings() at the start, over the settings files of at   *)
(* most MaxConfLines lines of LineCatalogue.                               *)
(***************************************************************************)

InitLoad == InitEnv(ConfTexts(ConfLines(Len(LineCatalogue)), MaxConfLines), TRUE)

NextLoad == \E readOk \in BOOLEAN : Launch(readOk)

SpecLoad == InitLoad /\ [][NextLoad]_vars

(***************************************************************************)
(* SpecRecognition: image selection and recognition with every draw of     *)
(* random.randint and random.sample.                                       *)
(***************************************************************************)

NextRecognition ==
    \/ \E readOk \in BOOLEAN : Launch(readOk)
    \/ ClickBrowseImage(Images(NumImages))
    \/ ClickRun(MaxParagraphs)

SpecRecognition == Init /\ [][NextRecognition]_vars

(***************************************************************************)
(* SpecCalls: the main window's handlers called as methods, whatever the   *)
(* buttons' state, with every answer to the save dialog and every outcome  *)
(* of the write.                                                           *)
(***************************************************************************)

NextCalls ==
    \/ \E readOk \in BOOLEAN : Launch(readOk)
    \/ \E file_path \in {<<>>, ImageCatalogue[1]} : browse_image(file_path)
    \/ \E k \in MinParagraphs..Min(MaxSavedParagraphs, MaxParagraphs) :
          \E selected_paragraphs \in Samples(k) : run_recognition(selected_paragraphs)
    \/ \E pick \in 0..(1 + Len(SaveCatalogue)), io \in IoOutcomes : save_text(pick, io)

SpecCalls == Init /\ [][NextCalls]_vars

(***************************************************************************)
(* Properties                                                              *)
(***************************************************************************)

\* A step is a call of save_settings().
SaveSettingsStep == \E mkOut \in BOOLEAN, io \in IoOutcomes : save_settings(mkOut, io)

\* The settings file's text, <<>> when there is none.
ConfText(files) ==
    IF Resolve(config_file) \in DOMAIN files THEN files[Resolve(config_file)] ELSE <<>>

ConfExists(files) == Resolve(config_file) \in DOMAIN files

\* C1: round trip.  When save_settings() has just accepted an existing input
\* directory and an output directory and written the settings file without a
\* warning, load_settings() on freshly defaulted settings returns input_dir and
\* output_dir exactly as they were entered and saved.
C1_SaveLoadRoundTrip ==
    (phase = "running" /\ dialog_result = "accepted" /\ msgbox \in {<<>>, <<"Created output directory">>})
        => LET loaded == load_settings(DefaultSettings, fs_dirs, fs_files, TRUE)
           IN  /\ DictGet(settings, input_dir_key) = input_dir_edit
               /\ DictGet(settings, output_dir_key) = output_dir_edit
               /\ DictGet(loaded, input_dir_key) = input_dir_edit
               /\ DictGet(loaded, output_dir_key) = output_dir_edit

\* C2: a save_settings() call whose input directory is not an existing
\* directory shows the validation warning and stops there: no file and no
\* directory is created or rewritten, the settings stay, the dialog stays open
\* and is not accepted.
C2_InvalidInputAborts ==
    [][(SaveSettingsStep /\ (input_dir_edit = <<>> \/ Resolve(input_dir_edit) \notin fs_dirs))
          => /\ msgbox' = <<"Input directory does not exist!">>
             /\ fs_files' = fs_files
             /\ fs_dirs' = fs_dirs
             /\ settings' = settings
             /\ dialog_open'
             /\ dialog_result' # "accepted"]_vars

\* C2's case: a save was just refused for its input directory, with a settings
\* file on disk that the refusal left alone.
C2_Witness ==
    /\ msgbox = <<"Input directory does not exist!">>
    /\ dialog_open
    /\ ConfExists(fs_files)

\* The lines of the settings file, and what the text before and after the
\* first "=" of a line is once the line's ends are trimmed.
ConfLinesOf(files) == SplitLines(ConfText(files))
WellFormed(line) == \E i \in 1..Len(line) : line[i] = "="
Trimmed(line) ==
    LET keep == {i \in 1..Len(line) : line[i] \notin Whitespace}
    IN  IF keep = {} THEN <<>>
        ELSE SubSeq(line, CHOOSE i \in keep : \A j \in keep : i <= j,
                          CHOOSE i \in keep : \A j \in keep : j <= i)
EqualsAt(line) ==
    CHOOSE i \in 1..Len(Trimmed(line)) :
        Trimmed(line)[i] = "=" /\ \A j \in 1..(i - 1) : Trimmed(line)[j] # "="
KeyOf(line) == SubSeq(Trimmed(line), 1, EqualsAt(line) - 1)
ValueOf(line) == SubSeq(Trimmed(line), EqualsAt(line) + 1, Len(Trimmed(line)))

\* The settings file is missing or corrupt in the claim's sense: it holds a
\* line without "=".
ConfMissingOrCorrupt(files) ==
    \/ ~ConfExists(files)
    \/ \E n \in 1..Len(ConfLinesOf(files)) : ~WellFormed(ConfLinesOf(files)[n])

FileGives(files, key) ==
    {n \in 1..Len(ConfLinesOf(files)) :
        WellFormed(ConfLinesOf(files)[n]) /\ KeyOf(ConfLinesOf(files)[n]) = key}
FileValue(files, key) ==
    ValueOf(ConfLinesOf(files)[CHOOSE n \in FileGives(files, key) :
                                   \A m \in FileGives(files, key) : m <= n])

C4_OutputDirCreated ==
    /\ [](dialog_result = "accepted"
            => /\ Resolve(DictGet(settings, input_dir_key)) \in fs_dirs
               /\ Resolve(DictGet(settings, output_dir_key)) \in fs_dirs
               /\ DictGet(settings, output_dir_key) # <<>>)
    /\ [][(SaveSettingsStep /\ Resolve(input_dir_edit) \in fs_dirs /\ input_dir_edit # <<>>)
            => IF output_dir_edit # <<>> /\ Resolve(output_dir_edit) \in fs_dirs
               THEN /\ dialog_result' = "accepted"
                    /\ msgbox' \in {<<>>, <<"Could not save settings">>}
                    /\ fs_dirs' \subseteq fs_dirs \cup Prefixes(Resolve(config_dir))
               ELSE \/ /\ dialog_result' = "accepted"
                       /\ Resolve(output_dir_edit) \in fs_dirs'
                       /\ Head(msgbox') = "Created output directory"
                    \/ /\ msgbox' = <<"Could not create output directory">>
                       /\ dialog_open'
                       /\ fs_dirs' = fs_dirs]_vars

\* C4's case: a save was accepted without the "created" notice for an output
\* directory that was not there at the start, so an earlier save created it
\* and this one found it.
C4_Witness ==
    /\ dialog_result = "accepted"
    /\ msgbox = <<>>
    /\ Resolve(output_dir_edit) \notin makedirs(InitialDirs, config_dir)
    /\ Resolve(output_dir_edit) \in fs_dirs

\* A text is k of the four paragraphs, 1 <= k <= 4, none twice, with exactly
\* two line breaks (one blank line) between neighbours and nothing else.
IsRecognitionOutput(text) ==
    \E k \in 1..4 :
        /\ Len(text) = 3 * k - 2
        /\ \A i \in 1..Len(text) :
              IF i % 3 = 1
              THEN \E j \in 1..4 : text[i] = lorem_paragraphs[j]
              ELSE text[i] = "\n"
        /\ \A i, j \in 1..Len(text) : (i % 3 = 1 /\ j % 3 = 1 /\ i # j) => text[i] # text[j]

\* Every text a draw can give.
AllOutputs == UNION {{RecognizedText(sel) : sel \in Samples(k)} : k \in 1..4}

\* A step is a completed run_recognition().
RunStep ==
    /\ selected_image # None
    /\ \E k \in MinParagraphs..MaxParagraphs :
          \E selected_paragraphs \in Samples(k) : run_recognition(selected_paragraphs)

\* C5: every run_recognition() with an image selected leaves the text buffer
\* holding k of the four paragraphs, 1 <= k <= 4, none twice, joined by one
\* blank line, whatever the buffer held before; and whichever image is
\* selected, each such text can be the result.
C5_RecognitionOutput ==
    /\ [](phase = "running" => (result_text = <<>> \/ IsRecognitionOutput(result_text)))
    /\ [][RunStep => IsRecognitionOutput(result_text') /\ save_button']_vars
    /\ []((run_button /\ selected_image # None)
            => \A t \in AllOutputs : ENABLED (ClickRun(MaxParagraphs) /\ result_text' = t))

\* C5's case: a run over a buffer that still held text has left all four
\* paragraphs, for the second image.
C5_Witness ==
    /\ selected_image = ImageCatalogue[2]
    /\ Len(result_text) = 10
    /\ IsRecognitionOutput(result_text)
    /\ status = <<"Recognition complete">>

\* The directories a file lies in, from the root down.
ParentsOf(path) == {SubSeq(Resolve(path), 1, i) : i \in 0..(Len(Resolve(path)) - 1)}

\* C6: save_text() on an empty buffer shows "No text to save." and touches
\* nothing: no save dialog, no directory, no file.  On a buffer with text and
\* a path the user confirmed, when creating the directories and writing do
\* not fail, the directories above the path exist afterwards and the file
\* holds the buffer's content, unchanged, in place of whatever it held; no
\* other file changes.
C6_SaveText ==
    [][\A pick \in 0..(1 + Len(SaveCatalogue)), io \in IoOutcomes :
          save_text(pick, io) =>
              IF result_text = <<>>
              THEN /\ msgbox' = <<"No text to save.">>
                   /\ offered_path' = <<>>
                   /\ fs_dirs' = fs_dirs
                   /\ fs_files' = fs_files
              ELSE /\ Len(offered_path') = 1
                   /\ (pick # 0 /\ io = "ok") =>
                         LET path == SaveDialog(offered_path'[1], pick)
                         IN  /\ Resolve(path) \in DOMAIN fs_files'
                             /\ fs_files'[Resolve(path)] = result_text
                             /\ ParentsOf(path) \subseteq fs_dirs'
                             /\ \A f \in DOMAIN fs_files :
                                   f # Resolve(path) => (f \in DOMAIN fs_files' /\ fs_files'[f] = fs_files[f])
                             /\ msgbox' = <<>>
                   /\ pick = 0 => (fs_dirs' = fs_dirs /\ fs_files' = fs_files)]_vars

\* C6's case: the buffer was written over an older text at a path whose
\* directories did not exist at the start.
C6_Witness ==
    /\ status = <<"Saved to ">> \o SaveCatalogue[1]
    /\ msgbox = <<>>
    /\ ParentsOf(SaveCatalogue[1]) \subseteq fs_dirs
    /\ ~(ParentsOf(SaveCatalogue[1]) \subseteq InitialDirs)
    /\ fs_files[Resolve(SaveCatalogue[1])] = result_text
    /\ result_text # <<>>

\* A step confirms an image selection.
SelectStep == \E f \in Images(NumImages) : browse_image(f)

\* A step is a cancelled image browse.
CancelBrowseStep == browse_image(<<>>)

\* C7: both buttons are disabled when the window is built; the run button
\* gets enabled only by a confirmed image selection, the save button only by
\* a completed recognition run; a cancelled image browse changes neither;
\* and an enabled button stays enabled, whatever the user does.
C7_ButtonGating ==
    [][/\ phase = "start" => (~run_button' /\ ~save_button')
       /\ (~run_button /\ run_button') => (phase = "running" /\ ~dialog_open /\ SelectStep)
       /\ (~save_button /\ save_button') => (phase = "running" /\ ~dialog_open /\ RunStep)
       /\ CancelBrowseStep => (run_button' = run_button /\ save_button' = save_button)
       /\ run_button => run_button'
       /\ save_button => save_button']_vars

\* C7's case: both buttons are enabled and have stayed so over a rejected
\* settings save and a cancelled dialog.
C7_Witness ==
    /\ run_button
    /\ save_button
    /\ dialog_result = "rejected"

\* The file name of a path and the name without its last extension: the
\* part from the last dot on is dropped when something other than dots comes
\* before that dot.
FileNameOf(path) == Components(path)[Len(Components(path))]
StemOf(name) ==
    LET dots == {i \in 1..Len(name) : name[i] = "."}
        last == CHOOSE i \in dots : \A j \in dots : j <= i
    IN  IF dots # {} /\ \E i \in 1..(last - 1) : name[i] # "."
        THEN SubSeq(name, 1, last - 1)
        ELSE name

\* path is <dir>/<name>: name in the directory dir.
IsEntryOf(path, dir, name) ==
    /\ Components(path) = Components(dir) \o <<name>>
    /\ IsAbs(path) = IsAbs(dir)

\* A step is an accepted save_settings().
AcceptStep == SaveSettingsStep /\ dialog_result' = "accepted"

\* C8: the path save_text() offers is <outputDirectory>/<imageBaseName>.txt:
\* the output directory is the one of the last accepted settings save (the
\* loaded or default one before any), the base name is the file name of the
\* image selected last without its last extension; without an image the name
\* is recognized_text.txt.
C8_DefaultSavePath ==
    /\ [](offered_path # <<>>
            => IsEntryOf(offered_path[1], DictGet(settings, output_dir_key),
                         IF selected_image # None
                         THEN StemOf(FileNameOf(selected_image)) \o <<".", "t", "x", "t">>
                         ELSE <<"r", "e", "c", "o", "g", "n", "i", "z", "e", "d", "_", "t", "e", "x", "t", ".", "t", "x", "t">>))
    /\ [][/\ AcceptStep => DictGet(settings', output_dir_key) = output_dir_edit
          /\ (phase = "running" /\ ~AcceptStep)
                => DictGet(settings', output_dir_key) = DictGet(settings, output_dir_key)
          /\ \A f \in Images(NumImages) : browse_image(f) => selected_image' = f
          /\ (phase = "running" /\ ~SelectStep) => selected_image' = selected_image]_vars

\* C8's case, the spec's example: cat.jpg of ~/Pictures selected and the
\* default output directory give ~/Documents/TextRecognition/cat.txt.
C8_Witness ==
    /\ selected_image = DefaultInputDir \o <<"/", "c", "a", "t", ".", "j", "p", "g">>
    /\ offered_path = <<DefaultOutputDir \o <<"/", "c", "a", "t", ".", "t", "x", "t">>>>

\* save_settings() passes validation: the input directory exists, and the
\* output directory exists or gets created.
PassesValidation ==
    /\ input_dir_edit # <<>> /\ Resolve(input_dir_edit) \in fs_dirs
    /\ output_dir_edit # <<>> /\ Resolve(output_dir_edit) \in fs_dirs'

\* C9: once the window is built, the settings change exactly in a
\* save_settings() call that passes validation; they then hold the two
\* entered directories and the dialog is accepted, also when writing the
\* settings file fails.  Every other step leaves them as they are: Cancel, a
\* save refused for its input directory or for an output directory that
\* cannot be created, an image browse, a recognition run, a text save.
C9_SettingsFrame ==
    [][phase = "running" =>
          IF SaveSettingsStep /\ PassesValidation
          THEN /\ DictGet(settings', input_dir_key) = input_dir_edit
               /\ DictGet(settings', output_dir_key) = output_dir_edit
               /\ Len(settings') = Len(settings)
               /\ dialog_result' = "accepted"
               /\ ~dialog_open'
          ELSE settings' = settings]_vars

\* C9's case: a save was accepted and stored a new output directory although
\* the settings file could not be written.
C9_Witness ==
    /\ dialog_result = "accepted"
    /\ msgbox # <<>>
    /\ msgbox[Len(msgbox)] = "Could not save settings"
    /\ DictGet(settings, output_dir_key) = DirCatalogue[2]
    /\ ConfText(fs_files) # SettingsText(settings)

\* C10: in every state the buttons lead to, an enabled save button comes
\* with a selected image and a text in the buffer, and an enabled run button
\* with a selected image; so no click shows "No text to save." or "Please
\* select an image first.", and the name recognized_text.txt is never offered.
C10_GatedBranchesUnreachable ==
    phase = "running" =>
        /\ save_button => (selected_image # None /\ result_text # <<>>)
        /\ run_button => selected_image # None
        /\ \A i \in 1..Len(msgbox) :
              msgbox[i] \notin {"No text to save.", "Please select an image first."}
        /\ \A i \in 1..Len(offered_path) :
              FileNameOf(offered_path[i]) # <<"r", "e", "c", "o", "g", "n", "i", "z", "e", "d", "_", "t", "e", "x", "t", ".", "t", "x", "t">>

\* C10's case: the enabled save button was clicked and save_text() offered a
\* path.
C10_Witness ==
    /\ save_button
    /\ offered_path # <<>>
    /\ msgbox = <<>>

====
